---- MODULE Spec2Model ----
(***************************************************************************)
(* taur (src/main.rs): a tiny AUR helper.  The model covers one run of the *)
(* process: main dispatches one command (clone, fetch, search, pull); the  *)
(* fetch and pull commands spawn one blocking unit per repository, each of *)
(* which runs check_repo_updates (and, for pull, the ref move, HEAD update *)
(* and forced checkout) against the on-disk git repositories under the     *)
(* repos root.  The git library is modelled at its boundary: refs, HEAD,   *)
(* the upstream configuration, the commit graph and the revision walk.     *)
(***************************************************************************)
EXTENDS Integers, Sequences, FiniteSets, TLC

\* ------------------------------------------------------------------ bounds

\* Number of entries the repos root can hold.
NEntries == 2
\* Number of commits of the commit graph.
NCommits == 5
\* Longest list of package names given to pull.
MaxNames == 2
\* Largest number of threads of the runtime's blocking pool.  The pool of
\* the default runtime is far larger than any number of units reachable
\* here; it is scaled down, to a single thread or to this many, so that
\* both cases, a free thread for every unit and more units than threads,
\* occur.
MaxBlockingThreads == 2

Entries == 1..NEntries
Commits == 1..NCommits

\* ------------------------------------------------------- the commit graph

\* Commits are numbered in commit-time order.  1 <- 2 <- 3 is upstream
\* history, 4 is a commit made locally on top of 1, 5 merges 3 and 4, and
\* every later commit continues the line.
Parents(c) ==
    IF c <= 1 THEN {}
    ELSE IF c = 4 THEN {1}
    ELSE IF c = 5 THEN {3, 4}
    ELSE {c - 1}

\* The commits reachable from c, c included.
RECURSIVE Reach(_)
Reach(c) == {c} \cup UNION {Reach(p) : p \in Parents(c)}

\* Commits whose message is not valid UTF-8: Commit::message() is None.
NonUtf8 == {5}

\* Commit::message(): Some(text) for a readable message.  The text of commit
\* c is identified with c; NoMessage stands for None.
NoMessage == 0

message(c) == IF c \in NonUtf8 THEN NoMessage ELSE c

Max(S) == CHOOSE x \in S : \A y \in S : y <= x

\* Revwalk::hide: the hidden commit and all its ancestors are uninteresting.
RECURSIVE MarkUninteresting(_, _)
MarkUninteresting(todo, marked) ==
    IF todo = {} THEN marked
    ELSE LET c == Max(todo)
         IN MarkUninteresting((todo \cup Parents(c)) \ (marked \cup {c}),
                              marked \cup {c})

\* Revwalk iteration: commits are taken newest first from the pending set,
\* uninteresting ones are dropped, the parents of the others are enqueued.
RECURSIVE RevwalkNext(_, _, _, _)
RevwalkNext(pending, seen, hidden, out) ==
    IF pending = {} THEN out
    ELSE LET c == Max(pending)
             more == IF c \in hidden THEN {} ELSE Parents(c)
         IN RevwalkNext((pending \cup more) \ (seen \cup {c}),
                        seen \cup {c},
                        hidden,
                        IF c \in hidden THEN out ELSE Append(out, c))

\* revwalk.push(pushed); revwalk.hide(hid); the oids the iterator yields.
revwalk(pushed, hid) ==
    RevwalkNext({pushed}, {}, MarkUninteresting({hid}, {}), <<>>)

\* The loop of check_repo_updates over the walk: a commit whose message()
\* is None pushes nothing.
RECURSIVE CollectMessages(_)
CollectMessages(oids) ==
    IF oids = <<>> THEN <<>>
    ELSE LET rest == CollectMessages(Tail(oids))
         IN IF message(Head(oids)) = NoMessage THEN rest
            ELSE <<message(Head(oids))>> \o rest

\* The messages check_repo_updates collects for each upstream revision
\* pushed and local revision hidden, tabulated once.
commit_messages ==
    [pushed \in Commits |->
        [hid \in Commits |-> CollectMessages(revwalk(pushed, hid))]]

\* ------------------------------------------------------------ repositories

Master == "refs/heads/master"
Dev == "refs/heads/dev"
OriginMaster == "refs/remotes/origin/master"
OriginDev == "refs/remotes/origin/dev"
FetchHead == "FETCH_HEAD"
RefNames == {Master, Dev, OriginMaster, OriginDev, FetchHead}
NoUpstream == "none"

\* A ref that does not exist has target NoCommit.
NoCommit == 0

\* One on-disk repository: its refs, the branch HEAD is on, the upstream
\* configured for each local branch, the commit the working tree holds and
\* the tip of master at the origin remote.
MkRepo(head, master, dev, upMaster, upDev, originMaster, originDev, remoteMaster) ==
    [ head |-> head,
      refs |-> [n \in RefNames |->
                  CASE n = Master -> master
                    [] n = Dev -> dev
                    [] n = OriginMaster -> originMaster
                    [] n = OriginDev -> originDev
                    [] OTHER -> NoCommit],
      upstream |-> [b \in {Master, Dev} |-> IF b = Master THEN upMaster ELSE upDev],
      worktree |-> IF head = Master THEN master ELSE dev,
      remoteMaster |-> remoteMaster ]

\* The repository configurations the repos root may hold.
UpToDate == MkRepo(Master, 3, NoCommit, OriginMaster, NoUpstream, 3, NoCommit, 3)
Behind == MkRepo(Master, 1, NoCommit, OriginMaster, NoUpstream, 1, NoCommit, 3)
BehindUnreadable == MkRepo(Master, 3, NoCommit, OriginMaster, NoUpstream, 3, NoCommit, NCommits)
Ahead == MkRepo(Master, 3, NoCommit, OriginMaster, NoUpstream, 2, NoCommit, 2)
Forked == MkRepo(Master, 4, NoCommit, OriginMaster, NoUpstream, 1, NoCommit, 3)
TracksDev == MkRepo(Master, 1, NoCommit, OriginDev, NoUpstream, 1, 2, 3)
OnDev == MkRepo(Dev, 1, 1, OriginMaster, OriginDev, 1, 2, 3)
Untracked == MkRepo(Master, 1, NoCommit, NoUpstream, NoUpstream, 1, NoCommit, 3)
NotARepo == MkRepo(Master, NoCommit, NoCommit, NoUpstream, NoUpstream, NoCommit, NoCommit, NoCommit)

RepoConfigs ==
    {UpToDate, Behind, BehindUnreadable, Ahead, Forked, TracksDev, OnDev, Untracked}

\* What an entry of the repos root is.
EntryKinds == {"absent", "file", "unreadable", "plaindir", "repo"}

\* The directory names, as byte strings: "b", "ab", "a", "aa", ...
DirName(i) ==
    IF i = 1 THEN <<98>>
    ELSE IF i = 2 THEN <<97, 98>>
    ELSE <<97>> \o [k \in 1..(i - 3) |-> 97]

\* ---------------------------------------------------------------- results

\* Result<Option<UpdateInfo>, Box<dyn Error>> of check_repo_updates, and the
\* UpdateInfo struct {name, commits} inside it.
UpdateInfo(name, commits) ==
    [tag |-> "Some", name |-> name, commits |-> commits, err |-> ""]

NoDivergence == [tag |-> "None", name |-> <<>>, commits |-> <<>>, err |-> ""]

CheckErr(e) == [tag |-> "Err", name |-> <<>>, commits |-> <<>>, err |-> e]

Pending == [tag |-> "Pending", name |-> <<>>, commits |-> <<>>, err |-> ""]

\* A fetch that also fast-forwards the local branch, as `git pull` would.
remote_fetch_and_merge(r) ==
    [r EXCEPT !.refs[FetchHead] = r.remoteMaster,
              !.refs[OriginMaster] = r.remoteMaster,
              !.refs[Master] = r.remoteMaster,
              !.worktree = r.remoteMaster]

\* remote.fetch(&["master"]): FETCH_HEAD and the remote-tracking ref of
\* origin's master are set to the tip of master at origin.
remote_fetch(r) ==
    [r EXCEPT !.refs[FetchHead] = r.remoteMaster,
              !.refs[OriginMaster] = r.remoteMaster]

\* repo.revparse_single("HEAD"): the commit of the branch HEAD is on.
revparse_head(r) == r.refs[r.head]

\* repo.revparse_single("@{u}"): the commit of the upstream configured for
\* the branch HEAD is on; NoCommit when there is none.
revparse_upstream(r) ==
    IF r.upstream[r.head] = NoUpstream THEN NoCommit
    ELSE r.refs[r.upstream[r.head]]

\* A divergence test on ancestry: diverged only when the upstream commit
\* is not already part of the local history.
DivergedBehindOnly(local_rev, remote_rev) == remote_rev \notin Reach(local_rev)

\* A wrong comparison in the divergence test: equal ids count as diverged.
DivergedNonStrict(local_rev, remote_rev) == local_rev <= remote_rev

\* The divergence test of check_repo_updates.
Diverged(local_rev, remote_rev) == local_rev # remote_rev

\* check_repo_updates on an entry of kind k holding repository r, named
\* dir_name, whose network fetch ends as net ("ok" or "fail"): the result and
\* the repository as the call leaves it.
check_repo_updates(k, r, dir_name, net) ==
    IF k # "repo" THEN [res |-> CheckErr("open"), repo |-> r]
    ELSE IF net = "fail" THEN [res |-> CheckErr("fetch"), repo |-> r]
    ELSE LET fetched == remote_fetch(r)
             local_rev == revparse_head(fetched)
             remote_rev == revparse_upstream(fetched)
         IN IF local_rev = NoCommit \/ remote_rev = NoCommit
            THEN [res |-> CheckErr("revparse"), repo |-> fetched]
            ELSE IF Diverged(local_rev, remote_rev)
            THEN [res |-> UpdateInfo(dir_name, commit_messages[remote_rev][local_rev]),
                  repo |-> fetched]
            ELSE [res |-> NoDivergence, repo |-> fetched]

\* impl Ord for UpdateInfo: String::cmp on the names, byte by byte.
RECURSIVE BytesLess(_, _)
BytesLess(a, b) ==
    IF b = <<>> THEN FALSE
    ELSE IF a = <<>> THEN TRUE
    ELSE IF Head(a) # Head(b) THEN Head(a) < Head(b)
    ELSE BytesLess(Tail(a), Tail(b))

UpdateInfoLess(x, y) == BytesLess(x.name, y.name)

\* update_infos.sort_unstable(): insertion into an ordered prefix.
RECURSIVE InsertSorted(_, _)
InsertSorted(sorted, x) ==
    IF sorted = <<>> THEN <<x>>
    ELSE IF UpdateInfoLess(x, Head(sorted)) THEN <<x>> \o sorted
    ELSE <<Head(sorted)>> \o InsertSorted(Tail(sorted), x)

RECURSIVE sort_unstable(_)
sort_unstable(infos) ==
    IF infos = <<>> THEN <<>>
    ELSE InsertSorted(sort_unstable(Tail(infos)), Head(infos))

\* print_update_info without the sort: the infos are rendered as received.
print_unsorted(infos) ==
    IF infos # <<>>
    THEN [state |-> "updates", infos |-> infos]
    ELSE [state |-> "no_updates", infos |-> <<>>]

\* print_update_info: what is rendered for the collected update_infos.
print_update_info(infos) ==
    IF infos # <<>>
    THEN [state |-> "updates", infos |-> sort_unstable(infos)]
    ELSE [state |-> "no_updates", infos |-> <<>>]

\* get_dir_list without the is_dir test: every readable entry is listed.
get_dir_list_all(kinds) ==
    LET RECURSIVE All(_)
        All(i) == IF i > NEntries THEN <<>>
                  ELSE IF kinds[i] \in {"file", "plaindir", "repo"}
                  THEN <<i>> \o All(i + 1)
                  ELSE All(i + 1)
    IN All(1)

\* get_dir_list: the names of the entries that are directories, in the
\* order read_dir yields them; files and unreadable entries are dropped.
RECURSIVE DirList(_, _)
DirList(kinds, i) ==
    IF i > NEntries THEN <<>>
    ELSE IF kinds[i] \in {"plaindir", "repo"} THEN <<i>> \o DirList(kinds, i + 1)
    ELSE DirList(kinds, i + 1)

get_dir_list(kinds) == DirList(kinds, 1)

\* ------------------------------------------------------------------ state

VARIABLES
    rootState,     \* the repos root: "listable", "unlistable" or "missing"
    kind,          \* what each entry of the repos root is
    repo,          \* the git repository in each entry
    cmd,           \* the command line: [op, names]
    mainpc,        \* where main is
    dirs,          \* fetch: the directory list being iterated
    units,         \* the spawn_blocking units, in spawn order
    txOpen,        \* fetch: the original Sender is alive
    rxOpen,        \* fetch: the Receiver is alive
    chan,          \* fetch: the messages in the mpsc channel
    update_infos,  \* fetch: the vector the drain loop fills
    report,        \* what print_update_info rendered
    stdout,        \* the other lines printed to the output stream
    stderr,        \* the lines printed to the error stream
    exit,          \* the exit status of the process
    prev,          \* the units of the previous run of the same command line
    start,         \* the repositories as this run of the process found them
    pool,          \* the number of threads the blocking pool may run
    searched       \* search: what the AUR query returned

vars ==
    <<rootState, kind, repo, cmd, mainpc, dirs, units, txOpen, rxOpen, chan,
      update_infos, report, stdout, stderr, exit, prev, start, pool, searched>>

disk == <<rootState, kind, repo>>
proc == <<cmd, prev, start, pool, searched>>
channel == <<txOpen, rxOpen, chan, update_infos, report>>

\* A printed line: who printed it (0 is main, u > 0 a unit), which message,
\* and the package and commits it shows.
Line(who, what, pkg, commits) ==
    [who |-> who, what |-> what, pkg |-> pkg, commits |-> commits]

\* A spawned unit: the entry it works on, where it is, the result of its
\* check, whether its closure returned without error, whether it holds a
\* clone of the Sender.
Unit(target, tx) ==
    [target |-> target, pc |-> "spawned", res |-> Pending, ret |-> "running",
     tx |-> tx]

\* The lists of package names pull can be given.
RECURSIVE NameLists(_)
NameLists(n) ==
    IF n = 0 THEN {<<>>}
    ELSE LET shorter == NameLists(n - 1)
         IN shorter \cup {Append(l, e) : l \in {x \in shorter : Len(x) = n - 1},
                                         e \in Entries}

\* The Command enum, with the default (no subcommand) as "none".
Commands ==
    {[op |-> o, names |-> <<>>] : o \in {"none", "fetch", "search"}}
    \cup {[op |-> "clone", names |-> <<e>>] : e \in Entries}
    \cup {[op |-> "pull", names |-> l] : l \in NameLists(MaxNames)}

Init ==
    /\ rootState \in {"listable", "unlistable", "missing"}
    /\ kind \in [Entries -> EntryKinds]
    /\ rootState # "listable" => \A e \in Entries : kind[e] = "absent"
    /\ repo \in [Entries -> RepoConfigs \cup {NotARepo}]
    /\ \A e \in Entries : kind[e] # "repo" <=> repo[e] = NotARepo
    /\ cmd \in Commands
    /\ mainpc = "main"
    /\ dirs = <<>>
    /\ units = <<>>
    /\ txOpen = FALSE
    /\ rxOpen = FALSE
    /\ chan = <<>>
    /\ update_infos = <<>>
    /\ report = [state |-> "none", infos |-> <<>>]
    /\ stdout = {}
    /\ stderr = {}
    /\ exit = "running"
    /\ prev = [ran |-> FALSE, units |-> <<>>]
    /\ start = repo
    /\ pool \in {1, MaxBlockingThreads}
    /\ searched = [rpc |-> "none", pkgs |-> {}]

\* main exiting with a failure status when the command returned an Err.
MainReturnsStatus(result, what) ==
    /\ mainpc' = "exited"
    /\ exit' = IF result = "Err" THEN "failure" ELSE "success"
    /\ stderr' = IF result = "Err"
                 THEN stderr \cup {Line(0, what, <<>>, <<>>)}
                 ELSE stderr

\* main's handling of a command that returned: an Err is printed to the
\* error stream, and main returns.
MainReturns(result, what) ==
    /\ mainpc' = "exited"
    /\ exit' = "success"
    /\ stderr' = IF result = "Err"
                 THEN stderr \cup {Line(0, what, <<>>, <<>>)}
                 ELSE stderr

\* ------------------------------------------------------------------ fetch

IsFetch == cmd.op \in {"fetch", "none"}

\* fetch up to the creation of the channel: the repos root is created when
\* missing, then listed; either can fail, which ends the call.
FetchBegin ==
    /\ mainpc = "main"
    /\ IsFetch
    /\ \E created \in BOOLEAN :
         IF rootState = "missing" /\ ~created
         THEN /\ MainReturns("Err", "Error while fetching")
              /\ UNCHANGED <<disk, dirs, units, channel, stdout>>
         ELSE IF rootState = "unlistable"
         THEN /\ MainReturns("Err", "Error while fetching")
              /\ UNCHANGED <<disk, dirs, units, channel, stdout>>
         ELSE /\ rootState' = "listable"
              /\ dirs' = get_dir_list(kind)
              /\ txOpen' = TRUE
              /\ rxOpen' = TRUE
              /\ mainpc' = "spawn"
              /\ UNCHANGED <<kind, repo, units, chan, update_infos, report,
                             stdout, stderr, exit>>
    /\ UNCHANGED proc

\* One iteration of `for dir in dirs`: the Sender is cloned and a unit is
\* spawned on the blocking pool.
FetchSpawn ==
    /\ mainpc = "spawn"
    /\ IsFetch
    /\ Len(units) < Len(dirs)
    /\ units' = Append(units, Unit(dirs[Len(units) + 1], TRUE))
    /\ UNCHANGED <<disk, proc, mainpc, dirs, channel, stdout, stderr, exit>>

\* The loop ends and the original Sender is kept alive.
FetchKeepTx ==
    /\ mainpc = "spawn"
    /\ IsFetch
    /\ Len(units) = Len(dirs)
    /\ mainpc' = "join"
    /\ UNCHANGED <<disk, proc, dirs, units, txOpen, rxOpen, chan, update_infos,
                   report, stdout, stderr, exit>>

\* drop(tx) after the loop.
FetchDropTx ==
    /\ mainpc = "spawn"
    /\ IsFetch
    /\ Len(units) = Len(dirs)
    /\ txOpen' = FALSE
    /\ mainpc' = "join"
    /\ UNCHANGED <<disk, proc, dirs, units, rxOpen, chan, update_infos, report,
                   stdout, stderr, exit>>

\* No join at all: the drain starts while units still run.
JoinSkipped == TRUE

\* A join that gives up on units that hang.
AllUnitsDoneOrHung == \A u \in DOMAIN units : units[u].pc \in {"done", "hung"}

AllUnitsDone == \A u \in DOMAIN units : units[u].pc = "done"

\* join_all(join_handles).await completes when every unit has finished.
FetchJoin ==
    /\ mainpc = "join"
    /\ IsFetch
    /\ AllUnitsDone
    /\ mainpc' = "drain"
    /\ UNCHANGED <<disk, proc, dirs, units, channel, stdout, stderr, exit>>

\* One iteration of `for received in rx`.
FetchRecv ==
    /\ mainpc = "drain"
    /\ chan # <<>>
    /\ update_infos' = Append(update_infos, Head(chan))
    /\ chan' = Tail(chan)
    /\ UNCHANGED <<disk, proc, mainpc, dirs, units, txOpen, rxOpen, report,
                   stdout, stderr, exit>>

SendersAlive == txOpen \/ \E u \in DOMAIN units : units[u].tx

\* The drain loop ends when the channel is empty and every Sender is gone;
\* then print_update_info runs, fetch returns Ok and main returns.
FetchReport ==
    /\ mainpc = "drain"
    /\ chan = <<>>
    /\ ~SendersAlive
    /\ rxOpen' = FALSE
    /\ report' = print_update_info(update_infos)
    /\ MainReturns("Ok", "")
    /\ UNCHANGED <<disk, proc, dirs, units, txOpen, chan, update_infos, stdout>>

\* A channel that holds one message and drops what does not fit.
send_bounded(ch, info) == IF ch = <<>> THEN <<info>> ELSE ch

\* tx.send(update_info) on the unbounded mpsc channel: the message is queued.
send(ch, info) == Append(ch, info)

\* The outcomes of a network fetch: it succeeds, fails, or never returns.
NetOutcomes == {"ok", "fail", "hang"}

\* task::spawn_blocking: the closure is queued for the runtime's blocking
\* pool.  A unit holds one of the pool's threads from the moment its
\* closure starts until it returns.
OnThread == {u \in DOMAIN units : units[u].pc \notin {"spawned", "done"}}

\* A pool that runs one closure at a time.
ThreadFreeSerial == OnThread = {}

\* A queued closure starts when the pool has a thread for it.
ThreadFree == Cardinality(OnThread) < pool

\* A fetch unit runs check_repo_updates on its directory.  A fetch that
\* never returns leaves the unit inside the call for ever.
UnitCheck(u) ==
    /\ IsFetch
    /\ units[u].pc = "spawned"
    /\ ThreadFree
    /\ LET e == units[u].target
       IN \E net \in NetOutcomes :
            IF kind[e] = "repo" /\ net = "hang"
            THEN /\ units' = [units EXCEPT ![u].pc = "hung"]
                 /\ UNCHANGED repo
            ELSE LET c == check_repo_updates(kind[e], repo[e], DirName(e), net)
                 IN /\ units' = [units EXCEPT ![u].pc = "checked", ![u].res = c.res]
                    /\ repo' = [repo EXCEPT ![e] = c.repo]
    /\ UNCHANGED <<rootState, kind, proc, mainpc, dirs, channel, stdout, stderr, exit>>

\* The closure's match on the result: an UpdateInfo is sent, an error is
\* printed, and the closure ends, dropping its Sender.
UnitFinish(u) ==
    /\ IsFetch
    /\ units[u].pc = "checked"
    /\ LET res == units[u].res
           sent == res.tag = "Some" /\ rxOpen
       IN /\ chan' = IF sent THEN send(chan, res) ELSE chan
          /\ stderr' =
               IF res.tag = "Err"
               THEN stderr \cup {Line(u, "Error while checking for updates for repo", <<>>, <<>>)}
               ELSE IF res.tag = "Some" /\ ~rxOpen
               THEN stderr \cup {Line(u, "Error while sending update info for printing", <<>>, <<>>)}
               ELSE stderr
          /\ units' = [units EXCEPT ![u].pc = "done", ![u].tx = FALSE,
                                    ![u].ret = "Ok"]
    /\ UNCHANGED <<disk, proc, mainpc, dirs, txOpen, rxOpen, update_infos, report,
                   stdout, exit>>

\* ------------------------------------------------------------------- pull

IsPull == cmd.op = "pull"

\* pull up to the spawn loop: the repos root is created when missing.
PullBegin ==
    /\ mainpc = "main"
    /\ IsPull
    /\ \E created \in BOOLEAN :
         IF rootState = "missing" /\ ~created
         THEN /\ MainReturns("Err", "Error while pulling")
              /\ UNCHANGED rootState
         ELSE /\ rootState' = IF rootState = "missing" THEN "listable" ELSE rootState
              /\ mainpc' = "spawn"
              /\ UNCHANGED <<stderr, exit>>
    /\ UNCHANGED <<kind, repo, proc, dirs, units, channel, stdout>>

\* One iteration of `for package_name in package_names`.
PullSpawn ==
    /\ mainpc = "spawn"
    /\ IsPull
    /\ Len(units) < Len(cmd.names)
    /\ units' = Append(units, Unit(cmd.names[Len(units) + 1], FALSE))
    /\ UNCHANGED <<disk, proc, mainpc, dirs, channel, stdout, stderr, exit>>

\* join_all(join_handles).await, after which pull returns Ok.
PullJoin ==
    /\ mainpc = "spawn"
    /\ IsPull
    /\ Len(units) = Len(cmd.names)
    /\ AllUnitsDone
    /\ MainReturns("Ok", "")
    /\ UNCHANGED <<disk, proc, dirs, units, channel, stdout>>

\* A failure that takes the whole pull down: every unit ends with it.
PullFailsAll(u, res) ==
    /\ units' = [v \in DOMAIN units |->
                    IF v = u
                    THEN [units[v] EXCEPT !.pc = "done", !.ret = "Err", !.res = res]
                    ELSE [units[v] EXCEPT !.pc = "done", !.ret = "Err"]]
    /\ stderr' = stderr \cup {Line(u, "Error while pulling package", <<>>, <<>>)}

\* The closure around pull_package: an Err is printed, and the unit ends.
PullFails(u, res) ==
    /\ units' = [units EXCEPT ![u].pc = "done", ![u].ret = "Err", ![u].res = res]
    /\ stderr' = stderr \cup {Line(u, "Error while pulling package", <<>>, <<>>)}

\* A match that goes on to move the branch whatever the checker found.
PullProceedsAlways(res) == TRUE

\* The match on the checker's result in pull_package: only Some goes on to
\* move the branch.
PullProceeds(res) == res.tag = "Some"

\* pull_package up to the match on update_info: the repository is opened
\* and checked; no divergence prints "No new commits to pull" and returns
\* Ok, a divergence prints the commits and goes on.
PullCheck(u) ==
    /\ IsPull
    /\ units[u].pc = "spawned"
    /\ ThreadFree
    /\ LET e == units[u].target
       IN \E net \in NetOutcomes :
            IF kind[e] = "repo" /\ net = "hang"
            THEN /\ units' = [units EXCEPT ![u].pc = "hung"]
                 /\ UNCHANGED <<repo, stdout, stderr>>
            ELSE LET c == check_repo_updates(kind[e], repo[e], DirName(e), net)
                 IN /\ repo' = [repo EXCEPT ![e] = c.repo]
                    /\ IF c.res.tag = "Err"
                       THEN /\ PullFails(u, c.res)
                            /\ UNCHANGED stdout
                       ELSE IF PullProceeds(c.res)
                       THEN /\ units' = [units EXCEPT ![u].pc = "apply", ![u].res = c.res]
                            /\ stdout' = stdout \cup
                                 {Line(u, "Pulling", DirName(e), c.res.commits)}
                            /\ UNCHANGED stderr
                       ELSE /\ units' = [units EXCEPT ![u].pc = "done", ![u].res = c.res,
                                                      ![u].ret = "Ok"]
                            /\ stdout' = stdout \cup
                                 {Line(u, "No new commits to pull", <<>>, <<>>)}
                            /\ UNCHANGED stderr
    /\ UNCHANGED <<rootState, kind, proc, mainpc, dirs, channel, exit>>

\* A move that insists on a fast-forward: FETCH_HEAD is only used when the
\* commit of HEAD is one of its ancestors.
fetch_commit_if_ancestor(r) ==
    IF r.refs[r.head] \in Reach(r.refs[FetchHead]) THEN r.refs[FetchHead] ELSE NoCommit

\* Moving the branch to its own current commit instead of the fetched one.
fetch_commit_local(r) == r.refs[Master]

\* The commit refs/heads/master is moved to: the one FETCH_HEAD names.
fetch_commit(r) == r.refs[FetchHead]

\* pull_package from find_reference("FETCH_HEAD") to set_target: FETCH_HEAD
\* and refs/heads/master are looked up and the branch is moved.
PullSetTarget(u) ==
    /\ IsPull
    /\ units[u].pc = "apply"
    /\ LET e == units[u].target
           r == repo[e]
       IN \E ok \in BOOLEAN :
            IF fetch_commit(r) = NoCommit \/ r.refs[Master] = NoCommit \/ ~ok
            THEN /\ PullFails(u, units[u].res)
                 /\ UNCHANGED repo
            ELSE /\ repo' = [repo EXCEPT ![e].refs[Master] = fetch_commit(r)]
                 /\ units' = [units EXCEPT ![u].pc = "moved"]
                 /\ UNCHANGED stderr
    /\ UNCHANGED <<rootState, kind, proc, mainpc, dirs, channel, stdout, exit>>

\* repo.set_head("refs/heads/master").
PullSetHead(u) ==
    /\ IsPull
    /\ units[u].pc = "moved"
    /\ LET e == units[u].target
       IN \E ok \in BOOLEAN :
            IF ~ok
            THEN /\ PullFails(u, units[u].res)
                 /\ UNCHANGED repo
            ELSE /\ repo' = [repo EXCEPT ![e].head = Master]
                 /\ units' = [units EXCEPT ![u].pc = "headset"]
                 /\ UNCHANGED stderr
    /\ UNCHANGED <<rootState, kind, proc, mainpc, dirs, channel, stdout, exit>>

\* repo.checkout_head with force: the working tree becomes HEAD's commit,
\* and pull_package returns Ok.
PullCheckout(u) ==
    /\ IsPull
    /\ units[u].pc = "headset"
    /\ LET e == units[u].target
       IN \E ok \in BOOLEAN :
            IF ~ok
            THEN /\ PullFails(u, units[u].res)
                 /\ UNCHANGED repo
            ELSE /\ repo' = [repo EXCEPT ![e].worktree = repo[e].refs[repo[e].head]]
                 /\ units' = [units EXCEPT ![u].pc = "done", ![u].ret = "Ok"]
                 /\ UNCHANGED stderr
    /\ UNCHANGED <<rootState, kind, proc, mainpc, dirs, channel, stdout, exit>>

\* ------------------------------------------------------------------ clone

\* clone, and main's handling of its result: the package is looked up in
\* the AUR, the repos root is created when missing, the repository is
\* cloned into root/package_name.
CloneRun ==
    /\ mainpc = "main"
    /\ cmd.op = "clone"
    /\ LET e == cmd.names[1]
       IN \E info \in {"rpc_error", "not_found", "found"},
             created \in BOOLEAN, cloned \in BOOLEAN :
            IF info # "found" \/ (rootState = "missing" /\ ~created)
            THEN /\ MainReturns("Err", "Error while cloning")
                 /\ UNCHANGED <<disk, stdout>>
            ELSE /\ rootState' = IF rootState = "missing" THEN "listable" ELSE rootState
                 /\ IF kind[e] = "absent" /\ cloned
                    THEN /\ kind' = [kind EXCEPT ![e] = "repo"]
                         /\ repo' = [repo EXCEPT ![e] = UpToDate]
                         /\ stdout' = stdout \cup {Line(0, "Cloned repo", DirName(e), <<>>)}
                         /\ MainReturns("Ok", "")
                    ELSE /\ MainReturns("Err", "Error while cloning")
                         /\ UNCHANGED <<kind, repo, stdout>>
    /\ UNCHANGED <<proc, dirs, units, channel>>

\* ----------------------------------------------------------------- search

\* Package names the AUR search can return: "go", "yay", "paru".
PkgNames == {<<103, 111>>, <<121, 97, 121>>, <<112, 97, 114, 117>>}

\* pkgs.sort_unstable_by(|a, b| a.name.cmp(&b.name)).
RECURSIVE SortNames(_)
SortNames(S) ==
    IF S = {} THEN <<>>
    ELSE LET least == CHOOSE x \in S : \A y \in S \ {x} : BytesLess(x, y)
         IN <<least>> \o SortNames(S \ {least})

\* The longest name's length, as in max_by_key(..).map(..), and 0 from
\* unwrap_or_default() when there is no name.
LongestLen(S) == IF S = {} THEN 0 ELSE Max({Len(n) : n \in S})

\* An emptiness test that is off by one.
NoMatchesOrOne(pkgs) == Cardinality(pkgs) <= 1

\* pkgs.len() == 0.
NoMatches(pkgs) == Cardinality(pkgs) = 0

\* usize subtraction: it overflows when the result would be negative.
UsizeSubOverflows(a, b) == a < b

\* The rows search prints for the sorted packages.
SearchRows(names, longest_len) ==
    {Line(0, "row", names[i], <<longest_len - Len(names[i]) + 1>>) : i \in DOMAIN names}

\* search, and main's handling of its result.  An overflowing usize
\* subtraction panics (in a debug build at the subtraction, in a release
\* build in str::repeat on the wrapped count), which ends the process.
SearchRun ==
    /\ mainpc = "main"
    /\ cmd.op = "search"
    /\ \E rpc \in {"rpc_error", "ok"}, pkgs \in SUBSET PkgNames :
         /\ searched' = [rpc |-> rpc, pkgs |-> IF rpc = "ok" THEN pkgs ELSE {}]
         /\ IF rpc = "rpc_error"
            THEN /\ MainReturns("Err", "Error while searching")
                 /\ UNCHANGED stdout
            ELSE IF NoMatches(pkgs)
            THEN /\ stdout' = stdout \cup {Line(0, "No packages found", <<>>, <<>>)}
                 /\ MainReturns("Ok", "")
            ELSE IF UsizeSubOverflows(LongestLen(pkgs), 3)
            THEN /\ mainpc' = "exited"
                 /\ exit' = "panic"
                 /\ UNCHANGED <<stdout, stderr>>
            ELSE /\ stdout' = stdout
                      \cup {Line(0, "header", <<>>, <<LongestLen(pkgs) - 3>>)}
                      \cup SearchRows(SortNames(pkgs), LongestLen(pkgs))
                 /\ MainReturns("Ok", "")
    /\ UNCHANGED <<disk, cmd, prev, start, pool, dirs, units, channel>>

\* ------------------------------------------------------------ the program

\* The same command line is run a second time, on the disk the first run
\* left.
Rerun ==
    /\ mainpc = "exited"
    /\ exit = "success"
    /\ ~prev.ran
    /\ prev' = [ran |-> TRUE, units |-> units]
    /\ start' = repo
    /\ mainpc' = "main"
    /\ units' = <<>>
    /\ stdout' = {}
    /\ stderr' = {}
    /\ exit' = "running"
    /\ UNCHANGED <<disk, cmd, pool, searched, dirs, channel>>

NextFetch ==
    \/ FetchBegin
    \/ FetchSpawn
    \/ FetchDropTx
    \/ FetchJoin
    \/ FetchRecv
    \/ FetchReport
    \/ \E u \in DOMAIN units : UnitCheck(u)
    \/ \E u \in DOMAIN units : UnitFinish(u)

NextPull ==
    \/ PullBegin
    \/ PullSpawn
    \/ PullJoin
    \/ \E u \in DOMAIN units : PullCheck(u)
    \/ \E u \in DOMAIN units : PullSetTarget(u)
    \/ \E u \in DOMAIN units : PullSetHead(u)
    \/ \E u \in DOMAIN units : PullCheckout(u)

Next ==
    \/ NextFetch
    \/ NextPull
    \/ CloneRun
    \/ SearchRun

\* One run of the program, with any command line.
Spec == Init /\ [][Next]_vars

\* One run of fetch (or of the default command, which is fetch).
InitFetch == Init /\ IsFetch

SpecFetch == InitFetch /\ [][NextFetch]_vars

\* The blocking pool runs every spawned unit and the runtime runs main: a
\* step that stays possible is eventually taken.  A fetch that hangs leaves
\* its unit with no step to take.
UnitStep(u) == u \in DOMAIN units /\ (UnitCheck(u) \/ UnitFinish(u))

MainStep ==
    FetchBegin \/ FetchSpawn \/ FetchDropTx \/ FetchJoin \/ FetchRecv \/ FetchReport

FairFetch ==
    /\ SpecFetch
    /\ WF_vars(MainStep)
    /\ \A u \in Entries : WF_vars(UnitStep(u))

\* One run of pull.
InitPull == Init /\ IsPull

SpecPull == InitPull /\ [][NextPull]_vars

\* One run of search.
InitSearch == Init /\ cmd.op = "search"

SpecSearch == InitSearch /\ [][SearchRun]_vars

\* pull of one package, run twice in a row.
InitTwice == Init /\ IsPull /\ Len(cmd.names) = 1

NextTwice == NextPull \/ Rerun

SpecTwice == InitTwice /\ [][NextTwice]_vars

\* ----------------------------------------------------------------- claims

\* The commits reachable from the upstream revision of r and not from its
\* local HEAD.
NewCommits(r) == Reach(revparse_upstream(r)) \ Reach(revparse_head(r))

Elems(q) == {q[i] : i \in DOMAIN q}

CheckErrorLine(u) == Line(u, "Error while checking for updates for repo", <<>>, <<>>)

\* The units whose check failed, and those whose check succeeded on a
\* repository whose HEAD differs from its upstream.
FailedUnits == {u \in DOMAIN units : units[u].res.tag = "Err"}

DivergedUnits ==
    {u \in DOMAIN units :
        /\ units[u].res.tag \in {"None", "Some"}
        /\ revparse_head(repo[units[u].target]) # revparse_upstream(repo[units[u].target])}

ExpectedInfo(u) ==
    LET r == repo[units[u].target]
    IN UpdateInfo(DirName(units[u].target),
                  CollectMessages(revwalk(revparse_upstream(r), revparse_head(r))))

\* C1: when fetch renders its report, every directory had its unit run to
\* the end, every failed check is on the error stream, the process did not
\* abort, and the report holds exactly one UpdateInfo per repository whose
\* check succeeded with a divergence.
C1_PartialFailureIsolation ==
    report.state # "none" =>
        /\ Len(units) = Len(dirs)
        /\ \A u \in DOMAIN units : units[u].pc = "done" /\ units[u].target = dirs[u]
        /\ \A u \in FailedUnits : CheckErrorLine(u) \in stderr
        /\ exit = "success"
        /\ Len(report.infos) = Cardinality(DivergedUnits)
        /\ Elems(report.infos) = {ExpectedInfo(u) : u \in DivergedUnits}

\* C1 witness: one unit failed on the network, a sibling diverged by two
\* commits, and the report holds exactly the sibling with its two commits.
C1_Witness ==
    /\ report.state = "updates"
    /\ Len(report.infos) = 1
    /\ Len(report.infos[1].commits) = 2
    /\ \E a, b \in DOMAIN units :
         /\ units[a].res = CheckErr("fetch")
         /\ CheckErrorLine(a) \in stderr
         /\ units[b].res = report.infos[1]

\* C2: a unit whose check succeeded on a repository whose HEAD id equals its
\* upstream id after the fetch got None, and the repository is nowhere on
\* the way to the report.
C2_EqualIdsNoDivergence ==
    \A u \in DOMAIN units :
        LET r == repo[units[u].target]
        IN (/\ units[u].res.tag \in {"None", "Some"}
            /\ revparse_head(r) = revparse_upstream(r))
           => /\ units[u].res = NoDivergence
              /\ \A i \in Elems(chan) \cup Elems(update_infos) \cup Elems(report.infos) :
                   i.name # DirName(units[u].target)

\* C2 witness: the report was rendered after an up-to-date repository was
\* checked beside a diverged one.
C2_Witness ==
    /\ report.state = "updates"
    /\ \E u \in DOMAIN units :
         /\ units[u].res = NoDivergence
         /\ revparse_head(repo[units[u].target]) = revparse_upstream(repo[units[u].target])

\* C3 (as claimed): the commit list of a diverged repository never holds the
\* local HEAD's entry and is as long as the set of commits reachable from
\* upstream and not from local HEAD.
C3_ListCountsNewCommits ==
    \A u \in DOMAIN units :
        units[u].res.tag = "Some" =>
            LET r == repo[units[u].target]
            IN /\ message(revparse_head(r)) \notin Elems(units[u].res.commits)
               /\ Len(units[u].res.commits) = Cardinality(NewCommits(r))

\* C4: the rendered report is in ascending order of repository name.
C4_ReportSortedByName ==
    \A i, j \in DOMAIN report.infos :
        i < j => BytesLess(report.infos[i].name, report.infos[j].name)

\* C4 witness: a report of several repositories whose results were received
\* in another order than the one rendered.
C4_Witness ==
    /\ report.state = "updates"
    /\ Len(report.infos) > 1
    /\ update_infos # report.infos

\* C10: when the repos root cannot be listed no unit is spawned and nothing
\* is rendered; when it can, once the spawn loop is over there is exactly
\* one unit per subdirectory, none for any other entry, and main has
\* printed no error.
C10_ListingFailureAborts ==
    /\ (IsFetch /\ rootState # "listable") => units = <<>> /\ report.state = "none"
    /\ (IsFetch /\ mainpc = "exited" /\ rootState # "listable") =>
           Line(0, "Error while fetching", <<>>, <<>>) \in stderr
    /\ (IsFetch /\ (mainpc \in {"join", "drain"} \/ report.state # "none")) =>
           /\ \A e \in Entries :
                Cardinality({u \in DOMAIN units : units[u].target = e})
                    = IF kind[e] \in {"plaindir", "repo"} THEN 1 ELSE 0
           /\ \A l \in stderr : l.who # 0

\* C10 witness: fetch ended on a root that could not be listed.
C10_Witness ==
    /\ IsFetch
    /\ mainpc = "exited"
    /\ rootState = "unlistable"
    /\ units = <<>>

\* C5 (as claimed): a pull that ran to its end pulled every repository of
\* the repos root when no name was given, and each named package otherwise.
C5_EmptyListPullsAll ==
    (IsPull /\ mainpc = "exited" /\ rootState # "missing") =>
        IF cmd.names = <<>>
        THEN \A e \in Entries :
               kind[e] = "repo" => \E u \in DOMAIN units : units[u].target = e
        ELSE /\ Len(units) = Len(cmd.names)
             /\ \A u \in DOMAIN units : units[u].target = cmd.names[u]

\* The first of two runs of `pull name` found a divergence and succeeded,
\* and the check of the second run has succeeded too.
SecondPullChecked ==
    /\ prev.ran
    /\ prev.units # <<>>
    /\ prev.units[1].res.tag = "Some"
    /\ prev.units[1].ret = "Ok"
    /\ units # <<>>
    /\ units[1].res.tag \in {"None", "Some"}

C7_NoDivergenceNoMutation ==
    /\ [](\A u \in DOMAIN units :
            units[u].res.tag = "None" => units[u].pc = "done" /\ units[u].ret = "Ok")
    /\ [][\A u \in DOMAIN units :
            (units[u].pc = "spawned" /\ units'[u].res.tag = "None") =>
                LET e == units[u].target
                IN /\ Line(u, "No new commits to pull", <<>>, <<>>) \in stdout'
                   /\ repo'[e].head = repo[e].head
                   /\ repo'[e].worktree = repo[e].worktree
                   /\ repo'[e].upstream = repo[e].upstream
                   /\ \A n \in RefNames \ {FetchHead, OriginMaster} :
                        repo'[e].refs[n] = repo[e].refs[n]
                   /\ \A f \in Entries \ {e} : repo'[f] = repo[f]
                   /\ kind' = kind]_vars

\* C7 witness: a pull returned Ok on an up-to-date repository after its
\* fetch wrote FETCH_HEAD.
C7_Witness ==
    \E u \in DOMAIN units :
        /\ IsPull
        /\ units[u].res = NoDivergence
        /\ units[u].ret = "Ok"
        /\ repo[units[u].target].refs[FetchHead] # NoCommit
        /\ Line(u, "No new commits to pull", <<>>, <<>>) \in stdout

SomeUnitHung == \E u \in DOMAIN units : units[u].pc = "hung"

\* A unit has completed with a divergence that is not reported yet.
SiblingResultWaits ==
    /\ report.state = "none"
    /\ \E v \in DOMAIN units : units[v].pc = "done" /\ units[v].res.tag = "Some"

\* C8 (as claimed): a hung fetch blocks only its own unit, so as long as a
\* sibling's result is not reported yet the program can still take a step
\* towards the report.
C8_HungUnitBlocksOnlyItself ==
    (SomeUnitHung /\ SiblingResultWaits) => ENABLED NextFetch

\* C8 (amended): a unit the pool has a thread for can always take its next
\* step unless its own fetch hangs, and a finished unit's UpdateInfo is in
\* the channel; but while a unit hangs, fetch stays in join_all and renders
\* no report.
C8_HungUnitBlocksReport ==
    /\ \A u \in DOMAIN units :
         (units[u].pc = "checked" \/ (units[u].pc = "spawned" /\ ThreadFree))
             => ENABLED UnitStep(u)
    /\ \A u \in DOMAIN units :
         (units[u].pc = "done" /\ units[u].res.tag = "Some" /\ mainpc \in {"spawn", "join"})
             => units[u].res \in Elems(chan)
    /\ SomeUnitHung => mainpc \in {"spawn", "join"} /\ report.state = "none"

\* C8 witness: one unit hangs in its fetch while every sibling has
\* completed, one of them having sent its UpdateInfo, and fetch waits in
\* join_all.
C8_Witness ==
    /\ mainpc = "join"
    /\ SomeUnitHung
    /\ \A v \in DOMAIN units : units[v].pc \in {"done", "hung"}
    /\ \E v \in DOMAIN units :
         units[v].pc = "done" /\ units[v].res.tag = "Some" /\ units[v].res \in Elems(chan)

\* C9: every unit that failed has its error on the error stream; a command
\* that ended without its result has its error there too; a process that
\* printed an error exited with success; and a fetch or pull that got to
\* spawning ran one unit per directory or name, all to their end.
C9_ErrorsLoggedExitSuccess ==
    /\ \A u \in DOMAIN units :
         (units[u].pc = "done" /\ (units[u].res.tag = "Err" \/ units[u].ret = "Err"))
             => \E l \in stderr : l.who = u
    /\ mainpc = "exited" =>
         /\ stderr # {} => exit = "success"
         /\ (IsFetch /\ report.state = "none")
                => Line(0, "Error while fetching", <<>>, <<>>) \in stderr
         /\ (IsPull /\ rootState = "missing")
                => Line(0, "Error while pulling", <<>>, <<>>) \in stderr
         /\ (cmd.op = "clone" /\ stdout = {})
                => Line(0, "Error while cloning", <<>>, <<>>) \in stderr
         /\ (cmd.op = "search" /\ stdout = {} /\ exit = "success")
                => Line(0, "Error while searching", <<>>, <<>>) \in stderr
         /\ (IsFetch /\ report.state # "none")
                => Len(units) = Len(dirs) /\ AllUnitsDone
         /\ (IsPull /\ rootState # "missing")
                => Len(units) = Len(cmd.names) /\ AllUnitsDone

\* C9 witness: a pull ended with success after one of its units failed and
\* another one moved its branch.
C9_Witness ==
    /\ IsPull
    /\ mainpc = "exited"
    /\ exit = "success"
    /\ \E a, b \in DOMAIN units :
         /\ units[a].ret = "Err"
         /\ Line(a, "Error while pulling package", <<>>, <<>>) \in stderr
         /\ units[b].ret = "Ok"
         /\ units[b].res.tag = "Some"

\* What search printed when the query returned zero packages.
NoPackagesLine == Line(0, "No packages found", <<>>, <<>>)

\* C11: a search whose query returned zero packages printed the single "No
\* packages found" line and nothing else, on either stream, and returned;
\* and that line is printed for no other query result.
C11_ZeroMatchesOnlyMessage ==
    /\ (searched.rpc = "ok" /\ searched.pkgs = {}) =>
           /\ stdout = {NoPackagesLine}
           /\ stderr = {}
           /\ mainpc = "exited"
           /\ exit = "success"
    /\ NoPackagesLine \in stdout => searched.rpc = "ok" /\ searched.pkgs = {}

\* C11 witness: a search ended after a query that matched nothing.
C11_Witness ==
    /\ cmd.op = "search"
    /\ mainpc = "exited"
    /\ searched = [rpc |-> "ok", pkgs |-> {}]
    /\ stdout = {NoPackagesLine}

\* C20 (as claimed): for every non-empty result list the header's padding
\* (longest name length minus 3) and every row's padding (longest name
\* length minus the row's name length, plus 1) are computed without
\* underflow, and the search prints its table.
C20_PaddingNeverUnderflows ==
    (searched.rpc = "ok" /\ searched.pkgs # {}) =>
        /\ ~UsizeSubOverflows(LongestLen(searched.pkgs), 3)
        /\ \A n \in searched.pkgs :
             ~UsizeSubOverflows(LongestLen(searched.pkgs), Len(n))
        /\ exit = "success"
        /\ \E l \in stdout : l.what = "header"

\* The units that sent an UpdateInfo, and everything received or still in
\* the channel.
SenderUnits == {u \in DOMAIN units : units[u].pc = "done" /\ units[u].res.tag = "Some"}

Delivered == chan \o update_infos

SendErrorLines ==
    {l \in stderr : l.what = "Error while sending update info for printing"}

\* C12: the drain starts only after every unit has completed and nothing is
\* received before; the receiver is alive as long as a unit can send, so no
\* send fails; every unit that sent has its UpdateInfo exactly once in the
\* channel or the drained collection, no other message is there, and the
\* collection passed to print_update_info is the complete one.
C12_JoinThenDrain ==
    IsFetch =>
        /\ (mainpc = "drain" \/ report.state # "none") =>
               /\ Len(units) = Len(dirs)
               /\ \A u \in DOMAIN units : units[u].pc = "done" /\ ~units[u].tx
        /\ mainpc \in {"main", "spawn", "join"} => update_infos = <<>>
        /\ (\E u \in DOMAIN units : units[u].pc # "done") => rxOpen
        /\ SendErrorLines = {}
        /\ Len(Delivered) = Cardinality(SenderUnits)
        /\ \A u \in DOMAIN units :
             LET at == {i \in DOMAIN Delivered :
                          Delivered[i].name = DirName(units[u].target)}
             IN IF u \in SenderUnits
                THEN \E i \in at : at = {i} /\ Delivered[i] = units[u].res
                ELSE at = {}
        /\ report.state # "none" =>
               chan = <<>> /\ Len(update_infos) = Cardinality(SenderUnits)

\* C12 witness: the join is over, the drain has not received anything yet,
\* and the channel holds the UpdateInfo of each of several units.
C12_Witness ==
    /\ mainpc = "drain"
    /\ update_infos = <<>>
    /\ Len(chan) > 1
    /\ Len(chan) = Cardinality(SenderUnits)

\* fetch has returned: it rendered its report, or it failed before spawning
\* and main printed the error.
FetchReturned ==
    /\ mainpc = "exited"
    /\ \/ report.state # "none"
       \/ Line(0, "Error while fetching", <<>>, <<>>) \in stderr

\* C13: a unit that has its result can always finish (its send does not
\* block); when the drain runs no Sender is left, neither the original nor
\* a unit's clone; and, every step that stays possible being taken in the
\* end, fetch returns unless a unit hangs in its network fetch for ever.
C13_FetchTerminates ==
    /\ [](\A u \in DOMAIN units : units[u].pc = "checked" => ENABLED UnitFinish(u))
    /\ []((IsFetch /\ (mainpc = "drain" \/ report.state # "none")) => ~SendersAlive)
    /\ <>(SomeUnitHung \/ FetchReturned)

\* C13 witness: fetch rendered its report after every one of several units
\* terminated, with all Senders closed.
C13_Witness ==
    /\ IsFetch
    /\ mainpc = "exited"
    /\ report.state # "none"
    /\ Len(units) = NEntries
    /\ ~SomeUnitHung
    /\ ~SendersAlive

\* The upstream RevisionId the check of a pull of entry e compared with the
\* local HEAD: @{u} as resolved right after the fetch, on the repository as
\* the run found it.
ComparedUpstream(e) == revparse_upstream(remote_fetch(start[e]))

\* The pull units that found a divergence and returned Ok.
PulledUnits ==
    {u \in DOMAIN units :
        IsPull /\ units[u].pc = "done" /\ units[u].ret = "Ok" /\ units[u].res.tag = "Some"}

\* The ref move comes before the HEAD update, which comes before the
\* checkout: until the move nothing has changed, after it HEAD and the
\* working tree are still the old ones, and after the HEAD update the
\* working tree is.
PullStepsInOrder ==
    \A u \in DOMAIN units :
        LET e == units[u].target
        IN /\ units[u].pc = "apply" =>
                /\ repo[e].refs[Master] = start[e].refs[Master]
                /\ repo[e].head = start[e].head
                /\ repo[e].worktree = start[e].worktree
           /\ units[u].pc = "moved" =>
                /\ repo[e].head = start[e].head
                /\ repo[e].worktree = start[e].worktree
           /\ units[u].pc = "headset" =>
                /\ repo[e].head = Master
                /\ repo[e].worktree = start[e].worktree

\* C14 (as claimed): after a pull that found a divergence and succeeded,
\* refs/heads/master is the upstream revision the check compared with the
\* local HEAD, HEAD is on refs/heads/master and the working tree holds that
\* revision; and the three steps happen in that order.
C14_MasterAtComparedUpstream ==
    /\ \A u \in PulledUnits :
         LET e == units[u].target
         IN /\ repo[e].refs[Master] = ComparedUpstream(e)
            /\ repo[e].head = Master
            /\ repo[e].worktree = ComparedUpstream(e)
    /\ PullStepsInOrder

\* What holds instead of C14: refs/heads/master is at the revision of
\* FETCH_HEAD, whatever the check compared.
C14_MasterAtFetchHead ==
    /\ \A u \in PulledUnits :
         LET e == units[u].target
         IN /\ repo[e].refs[Master] = repo[e].refs[FetchHead]
            /\ repo[e].refs[Master] = start[e].remoteMaster
            /\ repo[e].head = Master
            /\ repo[e].worktree = repo[e].refs[Master]
    /\ PullStepsInOrder

\* The commits of entry e reachable from the local HEAD the run found and
\* not from the tip of master at the remote: non-empty exactly when the
\* local HEAD is not an ancestor of the upstream revision.
LocalOnly(e) == Reach(revparse_head(start[e])) \ Reach(start[e].remoteMaster)

\* C15: a pull that found a divergence on a repository whose local HEAD is
\* not an ancestor of the upstream revision is never stopped for it: each of
\* the ref move, the HEAD update and the checkout can succeed, the move
\* puts refs/heads/master on the upstream revision, and a pull that
\* returned Ok printed no error and left every local-only commit
\* unreachable from refs/heads/master.
C15_NoAncestryCheck ==
    \A u \in DOMAIN units :
        LET e == units[u].target
        IN (IsPull /\ units[u].res.tag = "Some" /\ LocalOnly(e) # {}) =>
            /\ units[u].pc = "apply" =>
                 ENABLED (PullSetTarget(u) /\ units'[u].pc = "moved")
            /\ units[u].pc = "moved" =>
                 /\ repo[e].refs[Master] = start[e].remoteMaster
                 /\ ENABLED (PullSetHead(u) /\ units'[u].pc = "headset")
            /\ units[u].pc = "headset" =>
                 ENABLED (PullCheckout(u) /\ units'[u].ret = "Ok")
            /\ u \in PulledUnits =>
                 /\ repo[e].refs[Master] = start[e].remoteMaster
                 /\ LocalOnly(e) \cap Reach(repo[e].refs[Master]) = {}
                 /\ \A l \in stderr : l.who # u

\* C15 witness: a pull returned Ok on a repository that had a commit of its
\* own on master, and master no longer reaches that commit.
C15_Witness ==
    \E u \in PulledUnits :
        LET e == units[u].target
        IN /\ start[e].head = Master
           /\ start[e].refs[Master] \in LocalOnly(e)
           /\ start[e].refs[Master] \notin Reach(repo[e].refs[Master])
           /\ start[e].remoteMaster \notin Reach(start[e].refs[Master])
           /\ stderr = {}

\* How a pull ended: what the closure returned, what the check found and
\* the repository it left.
PullOutcome(ret, res, r) == [ret |-> ret, res |-> res, repo |-> r]

\* Every way pull_package can end when it runs alone on an entry of kind k
\* holding repository r: the check fails, or finds nothing, or finds a
\* divergence, after which the ref move, the HEAD update and the checkout
\* each either fail, leaving what was done before, or succeed.
PullAlone(k, r, dir_name) ==
    UNION {
        LET c == check_repo_updates(k, r, dir_name, net)
            moved == [c.repo EXCEPT !.refs[Master] = fetch_commit(c.repo)]
            headset == [moved EXCEPT !.head = Master]
            checkedout == [headset EXCEPT !.worktree = headset.refs[Master]]
        IN IF c.res.tag = "Err" THEN {PullOutcome("Err", c.res, c.repo)}
           ELSE IF c.res.tag = "None" THEN {PullOutcome("Ok", c.res, c.repo)}
           ELSE {PullOutcome("Err", c.res, c.repo)} \cup
                (IF fetch_commit(c.repo) = NoCommit \/ c.repo.refs[Master] = NoCommit
                 THEN {}
                 ELSE {PullOutcome("Err", c.res, moved),
                       PullOutcome("Err", c.res, headset),
                       PullOutcome("Ok", c.res, checkedout)})
        : net \in {"ok", "fail"}}

\* The pull units that have ended, and those among them whose package is
\* named once in the command line.
EndedPulls == {u \in DOMAIN units : IsPull /\ units[u].pc = "done"}

NamedOnce(u) ==
    Cardinality({i \in DOMAIN cmd.names : cmd.names[i] = units[u].target}) = 1

EndedAsAlone(u) ==
    LET e == units[u].target
    IN PullOutcome(units[u].ret, units[u].res, repo[e])
           \in PullAlone(kind[e], start[e], DirName(e))

\* A step of one unit leaves every other unit as it was.
OneUnitPerStep ==
    \A u, v \in DOMAIN units :
        (u # v /\ v \in DOMAIN units' /\ units'[u] # units[u]) => units'[v] = units[v]

\* C16 (as claimed): for every list of names, every pull that has ended has
\* the outcome, and its repository the state, of a pull run alone.
C16_PullsIndependent ==
    \A u \in EndedPulls : EndedAsAlone(u)

\* C16 (amended): the same for the pulls whose package is named once in
\* the list; and a step of one pull, a failure included, changes no other
\* unit.
C16_PullsIndependentDistinct ==
    /\ [](\A u \in EndedPulls : NamedOnce(u) => EndedAsAlone(u))
    /\ [][OneUnitPerStep]_vars

\* C16 witness: two pulls of different packages have ended, one with an
\* error, the other having moved its branch.
C16_Witness ==
    \E a, b \in EndedPulls :
        /\ units[a].target # units[b].target
        /\ units[a].ret = "Err"
        /\ units[b].ret = "Ok"
        /\ units[b].res.tag = "Some"
        /\ repo[units[b].target].refs[Master] # start[units[b].target].refs[Master]

\* Repository b is repository a but for what a fetch writes: FETCH_HEAD and
\* the remote-tracking ref of origin's master.
SameButFetched(a, b) ==
    /\ b.head = a.head
    /\ b.worktree = a.worktree
    /\ b.upstream = a.upstream
    /\ b.remoteMaster = a.remoteMaster
    /\ \A n \in RefNames \ {FetchHead, OriginMaster} : b.refs[n] = a.refs[n]

\* The fetch units whose call of check_repo_updates has returned.
ReturnedChecks == {u \in DOMAIN units : IsFetch /\ units[u].res.tag # "Pending"}

\* C17: whatever check_repo_updates returned, the repository it ran on has
\* the HEAD, local branches and working tree the run found; its FETCH_HEAD
\* and remote-tracking ref are the old ones when the fetch failed (or the
\* repository could not be opened) and origin's tip otherwise; a repository
\* no check has returned on is untouched; and once the call has returned,
\* its result stands and the repository is not written again.
C17_CheckOnlyFetches ==
    /\ [](IsFetch =>
            /\ \A e \in Entries : SameButFetched(start[e], repo[e])
            /\ \A u \in ReturnedChecks :
                 LET e == units[u].target
                 IN IF units[u].res.tag = "Err" /\ units[u].res.err \in {"open", "fetch"}
                    THEN repo[e] = start[e]
                    ELSE repo[e] = remote_fetch(start[e])
            /\ \A e \in Entries :
                 (\A u \in ReturnedChecks : units[u].target # e) => repo[e] = start[e])
    /\ [][\A u \in ReturnedChecks :
            /\ units'[u].res = units[u].res
            /\ repo'[units[u].target] = repo[units[u].target]]_vars

\* C17 witness: one check returned an UpdateInfo after its fetch moved the
\* remote-tracking ref, another failed in its fetch, and both repositories
\* have their HEAD, master and working tree as before.
C17_Witness ==
    \E a, b \in ReturnedChecks :
        /\ units[a].res.tag = "Some"
        /\ repo[units[a].target].refs[OriginMaster] # start[units[a].target].refs[OriginMaster]
        /\ repo[units[a].target].refs[Master] = start[units[a].target].refs[Master]
        /\ units[b].res = CheckErr("fetch")
        /\ units[b].pc = "done"
        /\ repo[units[b].target] = start[units[b].target]

\* The fetch units that wait for their closure to start.
QueuedUnits == {u \in DOMAIN units : IsFetch /\ units[u].pc = "spawned"}

StrictlyAhead(r) ==
    /\ revparse_head(r) # NoCommit
    /\ revparse_upstream(r) # NoCommit
    /\ revparse_head(r) # revparse_upstream(r)
    /\ NewCommits(r) = {}

\* C19: a check that succeeds on a repository whose local HEAD is strictly
\* ahead of its upstream returns an UpdateInfo with no commit; pull then
\* prints its "Pulling" header and goes on to move the branch; and fetch
\* lists the repository in its report of updates.
C19_AheadCountsAsDiverged ==
    /\ [][\A u \in DOMAIN units :
            LET e == units[u].target
            IN (/\ units[u].pc = "spawned"
                /\ units'[u].res.tag \in {"None", "Some"}
                /\ StrictlyAhead(repo'[e]))
               => /\ units'[u].res = UpdateInfo(DirName(e), <<>>)
                  /\ IsPull =>
                       /\ units'[u].pc = "apply"
                       /\ Line(u, "Pulling", DirName(e), <<>>) \in stdout']_vars
    /\ [](\A u \in DOMAIN units :
            (/\ IsFetch
             /\ report.state # "none"
             /\ units[u].res.tag \in {"None", "Some"}
             /\ StrictlyAhead(repo[units[u].target]))
            => /\ report.state = "updates"
               /\ UpdateInfo(DirName(units[u].target), <<>>) \in Elems(report.infos))

\* C19 witness: the fetch report lists, with no commit, a repository whose
\* local HEAD is strictly ahead of its upstream.
C19_Witness ==
    /\ IsFetch
    /\ report.state = "updates"
    /\ \E u \in DOMAIN units :
         /\ StrictlyAhead(repo[units[u].target])
         /\ units[u].res = UpdateInfo(DirName(units[u].target), <<>>)
         /\ units[u].res \in Elems(report.infos)

====
